---- MODULE Spec2Model ----
(***************************************************************************)
(* comment2var (src/src/extension.ts): a `// @label` comment above a       *)
(* declaration is remembered per document, and typing `@label` later is    *)
(* completed to the identifier.  The module models the per-document scan   *)
(* (parseDocument), the debounce wrapper, the three lifecycle handlers set *)
(* up by activate() and the completion provider.                           *)
(*                                                                         *)
(* A JavaScript string is a sequence of one-character strings, so that     *)
(* split, match, trim, startsWith and includes are computed character by   *)
(* character, as the regular expressions of the source do.                 *)
(***************************************************************************)
EXTENDS Integers, Sequences, FiniteSets, TLC

(***************************************************************************)
(* Characters and strings                                                  *)
(***************************************************************************)

\* \s of a JavaScript regular expression, and what trim() strips.
WhiteSpace == {" ", "\t", "\r", "\n"}

\* \w of a JavaScript regular expression: [A-Za-z0-9_].
WordChar ==
    {"a","b","c","d","e","f","g","h","i","j","k","l","m","n","o","p","q","r","s",
     "t","u","v","w","x","y","z","A","B","C","D","E","F","G","H","I","J","K","L",
     "M","N","O","P","Q","R","S","T","U","V","W","X","Y","Z","0","1","2","3","4",
     "5","6","7","8","9","_"}

\* . of a JavaScript regular expression: any character but a line terminator.
IsDot(c) == c \notin {"\n", "\r"}

Min(S) == CHOOSE x \in S : \A y \in S : x <= y

\* s.substring(a - 1, b) with 1-based inclusive positions; empty when a > b.
Slice(s, a, b) == IF a > b THEN << >> ELSE SubSeq(s, a, b)

\* Does the literal `lit` occur in s at position p?
HasAt(s, p, lit) ==
    /\ p >= 1
    /\ p + Len(lit) - 1 <= Len(s)
    /\ \A i \in 1..Len(lit) : s[p + i - 1] = lit[i]

\* A test that finds prefix anywhere in s.
StartsWithAnywhere(s, prefix) == \E p \in 1..(Len(s) + 1) : HasAt(s, p, prefix)

\* String.prototype.startsWith
StartsWith(s, prefix) == HasAt(s, 1, prefix)

\* String.prototype.includes
Includes(s, sub) == \E p \in 1..(Len(s) + 1) : HasAt(s, p, sub)

\* The length of the longest run of characters of class C that starts at p
\* (what a greedy C* consumes there).
RECURSIVE Run(_, _, _)
Run(s, p, C) ==
    IF p <= Len(s) /\ s[p] \in C THEN 1 + Run(s, p + 1, C) ELSE 0

\* The length of the longest run of non-terminator characters from p (greedy .*).
RECURSIVE DotRun(_, _)
DotRun(s, p) ==
    IF p <= Len(s) /\ IsDot(s[p]) THEN 1 + DotRun(s, p + 1) ELSE 0

\* String.prototype.trim
Trim(s) ==
    LET keep == {i \in 1..Len(s) : s[i] \notin WhiteSpace}
    IN  IF keep = {} THEN << >>
        ELSE Slice(s, Min(keep), CHOOSE i \in keep : \A j \in keep : j <= i)

\* text.split(/\r?\n/g): cut at every "\n", dropping a "\r" right before it.
RECURSIVE SplitFrom(_, _, _)
SplitFrom(s, start, p) ==
    IF p > Len(s) THEN << Slice(s, start, Len(s)) >>
    ELSE IF s[p] = "\n"
         THEN LET last == IF p - 1 >= start /\ s[p - 1] = "\r" THEN p - 2 ELSE p - 1
              IN  << Slice(s, start, last) >> \o SplitFrom(s, p + 1, p + 1)
         ELSE SplitFrom(s, start, p + 1)

SplitLines(s) == SplitFrom(s, 1, 1)

(***************************************************************************)
(* The two regular expressions of parseDocument                            *)
(***************************************************************************)

NoMatch == "NoMatch"

\* /\/\/\s*@{1}\s*(.+)/ tried at start position p: group 1 or NoMatch.
\* After "//" the greedy \s* must end on the "@"; after it \s* gives back
\* whitespace until (.+) finds a first character, and (.+) runs to the end
\* of the line.
AnnotationAt(line, p) ==
    IF ~HasAt(line, p, <<"/", "/">>) THEN NoMatch
    ELSE LET at == p + 2 + Run(line, p + 2, WhiteSpace)
         IN  IF ~HasAt(line, at, <<"@">>) THEN NoMatch
             ELSE LET w == Run(line, at + 1, WhiteSpace)
                      starts == {k \in 0..w : DotRun(line, at + 1 + k) > 0}
                  IN  IF starts = {} THEN NoMatch
                      ELSE LET k == CHOOSE x \in starts : \A y \in starts : y <= x
                               from == at + 1 + k
                           IN  Slice(line, from, from + DotRun(line, from) - 1)

\* line.match(/\/\/\s*@{1}\s*(.+)/): group 1 of the leftmost match.
AnnotationMatch(line) ==
    LET hits == {p \in 1..Len(line) : AnnotationAt(line, p) # NoMatch}
    IN  IF hits = {} THEN NoMatch ELSE AnnotationAt(line, Min(hits))

Keywords == { <<"c","o","n","s","t">>, <<"l","e","t">>, <<"v","a","r">> }

\* (?:const|let|var)\s+(\w+)\s*= tried at p: group 1 or NoMatch.
DeclarationAt(line, p) ==
    LET kws == {kw \in Keywords : HasAt(line, p, kw)}
    IN  IF kws = {} THEN NoMatch
        ELSE LET kw == CHOOSE k \in kws : TRUE
                 ws == Run(line, p + Len(kw), WhiteSpace)
                 from == p + Len(kw) + ws
                 n == Run(line, from, WordChar)
                 eq == from + n + Run(line, from + n, WhiteSpace)
             IN  IF ws >= 1 /\ n >= 1 /\ HasAt(line, eq, <<"=">>)
                 THEN Slice(line, from, from + n - 1)
                 ELSE NoMatch

\* (\w+)\s*: tried at p: group 2 or NoMatch.
PropertyAt(line, p) ==
    LET n == Run(line, p, WordChar)
        colon == p + n + Run(line, p + n, WhiteSpace)
    IN  IF n >= 1 /\ HasAt(line, colon, <<":">>)
        THEN Slice(line, p, p + n - 1)
        ELSE NoMatch

\* nextLine.match(/(?:const|let|var)\s+(\w+)\s*=|(\w+)\s*:/) followed by
\* variableMatch[1] || variableMatch[2]: at the leftmost position where an
\* alternative matches, the first alternative is preferred.
VariableMatch(line) ==
    LET hits == {p \in 1..Len(line) :
                    DeclarationAt(line, p) # NoMatch \/ PropertyAt(line, p) # NoMatch}
    IN  IF hits = {} THEN NoMatch
        ELSE LET p == Min(hits)
             IN  IF DeclarationAt(line, p) # NoMatch
                 THEN DeclarationAt(line, p)
                 ELSE PropertyAt(line, p)

(***************************************************************************)
(* The annotation map of one scan                                          *)
(***************************************************************************)

\* A Map<string, string> in insertion order: a sequence of entries with
\* distinct keys.
Entry(k, v) == [label |-> k, identifier |-> v]

Labels(m) == {m[i].label : i \in 1..Len(m)}

\* A set that keeps the value a present key already has.
MapSetKeepFirst(m, k, v) ==
    IF k \in Labels(m) THEN m ELSE Append(m, [label |-> k, identifier |-> v])

\* Map.prototype.set: a present key keeps its place and takes the new value,
\* a new key goes to the end.
MapSet(m, k, v) ==
    IF k \in Labels(m)
    THEN [i \in 1..Len(m) |-> IF m[i].label = k THEN Entry(k, v) ELSE m[i]]
    ELSE Append(m, Entry(k, v))

\* The index of the first line at or after j that is not blank, or
\* Len(lines) + 1.
RECURSIVE SkipBlank(_, _)
SkipBlank(lines, j) ==
    IF j <= Len(lines) /\ Trim(lines[j]) = << >> THEN SkipBlank(lines, j + 1) ELSE j

\* An iteration that maps an annotation no line follows to the empty name.
ScanLineDangling(lines, i, m) ==
    LET annotationMatch == AnnotationMatch(lines[i])
    IN  IF annotationMatch = NoMatch THEN m
        ELSE LET annotation == Trim(annotationMatch)
                 j == SkipBlank(lines, i + 1)
                 variableName == IF j > Len(lines) THEN << >> ELSE VariableMatch(lines[j])
             IN  IF variableName = NoMatch THEN m ELSE MapSet(m, annotation, variableName)

\* The effect of loop iteration i on the map.
ScanLine(lines, i, m) ==
    LET annotationMatch == AnnotationMatch(lines[i])
    IN  IF annotationMatch = NoMatch THEN m
        ELSE LET annotation == Trim(annotationMatch)
                 j == SkipBlank(lines, i + 1)
             IN  IF j > Len(lines) THEN m
                 ELSE LET variableName == VariableMatch(lines[j])
                      IN  IF variableName = NoMatch THEN m
                          ELSE MapSet(m, annotation, variableName)

RECURSIVE ScanFrom(_, _, _)
ScanFrom(lines, i, m) ==
    IF i > Len(lines) THEN m ELSE ScanFrom(lines, i + 1, ScanLine(lines, i, m))

\* The annotationMap parseDocument builds from a document's text.
Scan(t) == ScanFrom(SplitLines(t), 1, << >>)

(***************************************************************************)
(* The host: documents, workspace folders, editors, clock and timers       *)
(***************************************************************************)

\* Bounds of the model.
MaxEdits == 2
MaxTime == 1000
Quantum == 200

\* `timer` before the first call: no handle.
Null == << >>

\* workspaceFolders when no folder is open.
Undefined == << >>

\* `lastCall` when the wrapper was not called since the last callback.
NoCall == [doc |-> "none", at |-> -1]

\* `ran` when the step just taken ran no callback.
NoRun == [doc |-> "none", src |-> "none", seen |-> -1, n |-> 0, prev |-> -1]

\* No completion request has been answered, and no text has been scanned.
NoCompletion == [doc |-> "none", line |-> << >>, character |-> 0, items |-> << >>]
NotScanned == << [label |-> << >>, identifier |-> << >>] >>

\* The documents of the model, named by their uri.  "A" and "B" lie in the
\* workspace folder /w; each of the others takes one early return of the
\* filter, but "S", which lies in /wx, beside the workspace folder.  A run
\* has "A" and one other document open.
AllDocs == {"A", "B", "U", "O", "S", "N", "V"}

OtherDocs == AllDocs \ {"A"}

\* doc.uri.scheme
Scheme(d) == IF d = "U" THEN "untitled" ELSE "file"

\* doc.uri.fsPath
FsPath(d) ==
    CASE d = "A" -> <<"/","w","/","a",".","t","s">>
      [] d = "B" -> <<"/","w","/","b",".","t","s">>
      [] d = "U" -> <<"U","n","t","i","t","l","e","d","-","1">>
      [] d = "O" -> <<"/","o","/","c",".","t","s">>
      [] d = "S" -> <<"/","w","x","/","c",".","t","s">>
      [] d = "N" -> <<"/","w","/","n","o","d","e","_","m","o","d","u","l","e","s","/","m",".","j","s">>
      [] d = "V" -> <<"/","w","/",".","v","s","c","o","d","e","/","s",".","j","s">>

\* folder.uri.fsPath of the one workspace folder, /w.
RootW == <<"/","w">>

NodeModules == <<"n","o","d","e","_","m","o","d","u","l","e","s">>
DotVscode == <<".","v","s","c","o","d","e">>

\* The texts a document goes through: edit number k leaves it with
\* Texts[(k % 3) + 1].
\*   "// @uid\nconst userId = 5;\n// @n\n\ncount: 1\n// @u\nU: 0"
\*   "// @uid\r\nlet id2 = 0;\n// @gone\n"
\*   "//@ n\nvar k=1\n// @n\nlast : 2\n// @x\n// c"
Texts ==
    << <<"/","/"," ","@","u","i","d","\n","c","o","n","s","t"," ","u","s","e","r","I","d"," ","="," ","5",";","\n","/","/"," ","@","n","\n","\n","c","o","u","n","t",":"," ","1","\n","/","/"," ","@","u","\n","U",":"," ","0">>,
       <<"/","/"," ","@","u","i","d","\r","\n","l","e","t"," ","i","d","2"," ","="," ","0",";","\n","/","/"," ","@","g","o","n","e","\n">>,
       <<"/","/","@"," ","n","\n","v","a","r"," ","k","=","1","\n","/","/"," ","@","n","\n","l","a","s","t"," ",":"," ","2","\n","/","/"," ","@","x","\n","/","/"," ","c">> >>

Content(k) == Texts[(k % Len(Texts)) + 1]

VARIABLES
    activated,         \* has activate() run
    docs,              \* the documents open in the host
    workspaceFolders,  \* vscode.workspace.workspaceFolders
    visible,           \* the documents of vscode.window.visibleTextEditors
    text,              \* text[d]: the number of edits made to d; its text is Content(text[d])
    now,               \* the clock
    timeouts,          \* the host's pending timeouts
    timer,             \* `timer` of the closure of parseDocumentWithDebounce2
    documentAnnotations, \* the Map from uri to annotation map: a function on the keys it has
    scannedVer,        \* history: the edit number of the text the entry of d was scanned from
    ran,               \* history: what the step just taken ran from a timeout
    quietVis,          \* history: the editors of a visibility event, while no other event followed
    lastCall,          \* history: the document and time of the last call of the wrapper, until a callback runs
    completion,        \* the completion request the step just taken answered, and its items
    escaped,           \* has an exception left the extension's code for the host
    scanIn,            \* the lines of a text handed to the scanner
    scanOut,           \* the annotation map the scanner returned for scanIn
    quiet,             \* have the host's events stopped
    lastDoc            \* history: the document of the last call of the wrapper

\* The state of the indexing controller.
core == << activated, docs, workspaceFolders, visible, text, now, timeouts, timer,
           documentAnnotations, scannedVer, ran, quietVis, lastCall >>

\* What the controller's handlers never touch.
others == << completion, escaped, scanIn, scanOut, quiet, lastDoc >>

vars == << core, others >>

(***************************************************************************)
(* debounce                                                                *)
(***************************************************************************)

\* The delay of parseDocumentWithDebounce2, and the delay written in
\* parseDocumentWithDebounce, whose wrapper is never called.
Delay2 == 300
Delay1 == 1000

\* editor.document and event.document: the host's live object for d, whose
\* text is whatever it is when read.  (A detached copy would keep the text
\* it was made with.)
DocumentOf(d) == [uri |-> d, live |-> TRUE, text |-> 0]

\* The edit number of the text doc.getText() returns.
VersionOf(doc) == IF doc.live THEN text[doc.uri] ELSE doc.text

\* doc.getText()
GetText(doc) == Content(VersionOf(doc))

\* A clearTimeout that leaves the timeout pending.
ClearTimeoutNoop(q, h) == q

\* clearTimeout(h): a handle that is not pending clears nothing.
ClearTimeout(q, h) == {x \in q : x.id # h}

\* The handle a new timeout gets: one no pending timeout has.
FreshId(q) == << Min({i \in 1..(Cardinality(q) + 1) : \A x \in q : x.id # << i >>}) >>

\* setTimeout(() => callback.apply(this, args), delay), with the history
\* fields t0 (when it was set), src (the handler that called), seen (the
\* edit number of the document then) and n (how many calls it stands for,
\* counted up to 2).
SetTimeout(q, doc, delay, src, seen, n) ==
    q \cup {[id |-> FreshId(q), at |-> now + delay, doc |-> doc,
             t0 |-> now, src |-> src, seen |-> seen, n |-> n]}

\* A wrapper per handler, each with its own timer and the delay written for
\* it, whose callback gets the text the document had at the call instead of
\* the live document.
DebounceCallPerHandler(w, doc, src, seen) ==
    LET id == IF src = "change" THEN << 2 >> ELSE << 1 >>
        delay == IF src = "change" THEN Delay1 ELSE Delay2
        copy == [uri |-> doc.uri, live |-> FALSE, text |-> seen]
    IN  [timer |-> id,
         timeouts |-> ClearTimeout(w.timeouts, id) \cup
                        {[id |-> id, at |-> now + delay, doc |-> copy,
                          t0 |-> now, src |-> src, seen |-> seen, n |-> 1]}]

\* One call of the function debounce(parseDocument, 300) returned, on the
\* wrapper state w = [timer, timeouts]; src and seen go to the history fields.
DebounceCall(w, doc, src, seen) ==
    LET cleared == IF w.timer # Null THEN ClearTimeout(w.timeouts, w.timer)
                   ELSE w.timeouts
        n == IF cleared # w.timeouts THEN 2 ELSE 1
    IN  [timer |-> FreshId(cleared),
         timeouts |-> SetTimeout(cleared, doc, Delay2, src, seen, n)]

(***************************************************************************)
(* parseDocument                                                           *)
(***************************************************************************)

\* The four early returns of parseDocument.
IsInWorkspace(d) ==
    \E i \in 1..Len(workspaceFolders) : StartsWith(FsPath(d), workspaceFolders[i])

PassesFilter(d) ==
    /\ Scheme(d) = "file"
    /\ workspaceFolders # Undefined
    /\ IsInWorkspace(d)
    /\ ~(Includes(FsPath(d), NodeModules) \/ Includes(FsPath(d), DotVscode))

\* A set that keeps the entries of the map it replaces under labels the new
\* map does not have.
StoreMerge(store, key, m) ==
    [k \in DOMAIN store \cup {key} |->
        IF k # key THEN store[k]
        ELSE IF key \in DOMAIN store
             THEN m \o SelectSeq(store[key], LAMBDA e : e.label \notin Labels(m))
             ELSE m]

\* documentAnnotations.set(key, annotationMap)
StoreSet(store, key, m) ==
    [k \in DOMAIN store \cup {key} |-> IF k = key THEN m ELSE store[k]]

\* The annotationMap of each text a document goes through, computed once.
AnnotationMaps == [i \in 1..Len(Texts) |-> Scan(Texts[i])]

\* Lines 46-78 for the document: Scan(GetText(doc)), looked up in the table.
ScanDocument(doc) == AnnotationMaps[(VersionOf(doc) % Len(Texts)) + 1]

\* A parseDocument that deletes the entry of a document the filter rejects.
ParseDocumentEvict(store, doc) ==
    IF PassesFilter(doc.uri)
    THEN StoreSet(store, doc.uri, ScanDocument(doc))
    ELSE [k \in DOMAIN store \ {doc.uri} |-> store[k]]

\* parseDocument(doc) on the Map `store`.
ParseDocument(store, doc) ==
    IF PassesFilter(doc.uri)
    THEN StoreSet(store, doc.uri, ScanDocument(doc))
    ELSE store

\* The history that goes with it.
ParseVersion(ver, doc) ==
    IF PassesFilter(doc.uri) THEN [ver EXCEPT ![doc.uri] = VersionOf(doc)] ELSE ver

(***************************************************************************)
(* activate(): the initial scan and the two event handlers                 *)
(***************************************************************************)

Range(f) == {f[i] : i \in DOMAIN f}

\* The arrays of editors an event can deliver: distinct documents in any order.
EditorLists ==
    {e \in UNION {[1..n -> docs] : n \in 0..Cardinality(docs)} :
        \A i, j \in DOMAIN e : i # j => e[i] # e[j]}

\* visibleTextEditors.forEach(editor => parseDocument(editor.document))
RECURSIVE ParseEach(_, _)
ParseEach(store, ds) ==
    IF ds = {} THEN store
    ELSE LET d == CHOOSE x \in ds : TRUE
         IN  ParseEach(ParseDocument(store, DocumentOf(d)), ds \ {d})

RECURSIVE VersionEach(_, _)
VersionEach(ver, ds) ==
    IF ds = {} THEN ver
    ELSE LET d == CHOOSE x \in ds : TRUE
         IN  VersionEach(ParseVersion(ver, DocumentOf(d)), ds \ {d})

\* editors.forEach(editor => parseDocumentWithDebounce2(editor.document)),
\* from editor i on.
RECURSIVE DebounceEach(_, _, _)
DebounceEach(w, editors, i) ==
    IF i > Len(editors) THEN w
    ELSE DebounceEach(DebounceCall(w, DocumentOf(editors[i]), "visible", text[editors[i]]),
                      editors, i + 1)

Init ==
    /\ activated = FALSE
    /\ \/ workspaceFolders = << RootW >> /\ docs \in {{"A", x} : x \in OtherDocs}
       \/ workspaceFolders = Undefined /\ docs = {"A", "B"}
    /\ visible \in SUBSET docs
    /\ text = [d \in AllDocs |-> 0]
    /\ now = 0
    /\ timeouts = {}
    /\ timer = Null
    /\ documentAnnotations = << >>
    /\ scannedVer = [d \in AllDocs |-> -1]
    /\ ran = NoRun
    /\ quietVis = {}
    /\ lastCall = NoCall
    /\ completion = NoCompletion
    /\ escaped = FALSE
    /\ scanIn = << >>
    /\ scanOut = NotScanned
    /\ quiet = FALSE
    /\ lastDoc = "none"

\* An activation that hands the visible documents to the debounce wrapper.
ActivateDebounced ==
    /\ ~activated
    /\ activated' = TRUE
    /\ \E editors \in EditorLists :
          /\ Range(editors) = visible
          /\ LET w == DebounceEach([timer |-> timer, timeouts |-> timeouts], editors, 1)
             IN  /\ timer' = w.timer
                 /\ timeouts' = w.timeouts
          /\ lastCall' = IF Len(editors) > 0
                         THEN [doc |-> editors[Len(editors)], at |-> now]
                         ELSE lastCall
    /\ UNCHANGED << docs, workspaceFolders, visible, text, now, documentAnnotations,
                    scannedVer, ran, quietVis >>

\* activate(): the Map is created, every visible document is parsed at once
\* and the handlers are registered.
Activate ==
    /\ ~activated
    /\ activated' = TRUE
    /\ documentAnnotations' = ParseEach(documentAnnotations, visible)
    /\ scannedVer' = VersionEach(scannedVer, visible)
    /\ UNCHANGED << docs, workspaceFolders, visible, text, now, timeouts, timer, ran,
                    quietVis, lastCall >>

\* onDidChangeVisibleTextEditors(editors)
VisibleChanged(editors) ==
    /\ activated
    /\ visible' = Range(editors)
    /\ LET w == IF Len(editors) > 0
                THEN DebounceEach([timer |-> timer, timeouts |-> timeouts], editors, 1)
                ELSE [timer |-> timer, timeouts |-> timeouts]
       IN  /\ timer' = w.timer
           /\ timeouts' = w.timeouts
    /\ ran' = NoRun
    /\ quietVis' = Range(editors)
    /\ lastCall' = IF Len(editors) > 0
                   THEN [doc |-> editors[Len(editors)], at |-> now]
                   ELSE lastCall
    /\ UNCHANGED << activated, docs, workspaceFolders, text, now, documentAnnotations, scannedVer >>

\* The number of edits made so far.
Edits == text["A"] + text["B"] + text["U"] + text["O"] + text["S"] + text["N"] + text["V"]

\* A handler that hands every changed document to the wrapper, visible or not.
DocumentChangedAny(d) ==
    /\ activated
    /\ Edits < MaxEdits
    /\ text' = [text EXCEPT ![d] = @ + 1]
    /\ LET w == DebounceCall([timer |-> timer, timeouts |-> timeouts],
                             DocumentOf(d), "change", text[d] + 1)
       IN  /\ timer' = w.timer
           /\ timeouts' = w.timeouts
    /\ ran' = NoRun
    /\ quietVis' = {}
    /\ lastCall' = [doc |-> d, at |-> now]
    /\ UNCHANGED << activated, docs, workspaceFolders, visible, now, documentAnnotations, scannedVer >>

\* An edit of document d, and onDidChangeTextDocument(event) for it.
DocumentChanged(d) ==
    /\ activated
    /\ Edits < MaxEdits
    /\ text' = [text EXCEPT ![d] = @ + 1]
    /\ LET isVisible == d \in visible
           w == IF isVisible
                THEN DebounceCall([timer |-> timer, timeouts |-> timeouts],
                                  DocumentOf(d), "change", text[d] + 1)
                ELSE [timer |-> timer, timeouts |-> timeouts]
       IN  /\ timer' = w.timer
           /\ timeouts' = w.timeouts
    /\ ran' = NoRun
    /\ quietVis' = {}
    /\ lastCall' = IF d \in visible THEN [doc |-> d, at |-> now] ELSE lastCall
    /\ UNCHANGED << activated, docs, workspaceFolders, visible, now, documentAnnotations, scannedVer >>

\* The callback run on the text the document had when the timeout was set.
TimerFireCaptured(q) ==
    LET doc == [uri |-> q.doc.uri, live |-> FALSE, text |-> q.seen]
    IN  /\ q.at = now
        /\ timeouts' = timeouts \ {q}
        /\ documentAnnotations' = ParseDocument(documentAnnotations, doc)
        /\ scannedVer' = ParseVersion(scannedVer, doc)
        /\ ran' = [doc |-> q.doc.uri, src |-> q.src, seen |-> q.seen, n |-> q.n,
                   prev |-> scannedVer[q.doc.uri]]
        /\ lastCall' = NoCall
        /\ UNCHANGED << activated, docs, workspaceFolders, visible, text, now, timer, quietVis >>

\* The timeout q is due: the host runs callback.apply(this, args).
TimerFire(q) ==
    /\ q.at = now
    /\ timeouts' = timeouts \ {q}
    /\ documentAnnotations' = ParseDocument(documentAnnotations, q.doc)
    /\ scannedVer' = ParseVersion(scannedVer, q.doc)
    /\ ran' = [doc |-> q.doc.uri, src |-> q.src, seen |-> q.seen, n |-> q.n,
               prev |-> scannedVer[q.doc.uri]]
    /\ lastCall' = NoCall
    /\ UNCHANGED << activated, docs, workspaceFolders, visible, text, now, timer, quietVis >>

\* Time passes, up to the next timeout that is due.
Tick ==
    /\ activated
    /\ \A q \in timeouts : q.at > now
    /\ now' = Min({now + Quantum} \cup {q.at : q \in timeouts})
    /\ now' <= MaxTime
    /\ ran' = NoRun
    /\ UNCHANGED << activated, docs, workspaceFolders, visible, text, timeouts, timer,
                    documentAnnotations, scannedVer, quietVis, lastCall >>

Next ==
    \/ Activate /\ UNCHANGED others
    \/ \E editors \in EditorLists : VisibleChanged(editors) /\ UNCHANGED others
    \/ \E d \in docs : DocumentChanged(d) /\ UNCHANGED others
    \/ \E q \in timeouts : TimerFire(q) /\ UNCHANGED others
    \/ Tick /\ UNCHANGED others

Spec == Init /\ [][Next]_vars

(***************************************************************************)
(* provideCompletionItems                                                  *)
(***************************************************************************)

\* linePrefix.match(/@([^\s@]*)$/): group 1, or NoMatch.  The match starts
\* at the leftmost "@" after which neither whitespace nor "@" follows up to
\* the end.
AtMatch(linePrefix) ==
    LET hits == {p \in 1..Len(linePrefix) :
                    /\ linePrefix[p] = "@"
                    /\ \A i \in (p + 1)..Len(linePrefix) :
                          linePrefix[i] \notin WhiteSpace \cup {"@"}}
    IN  IF hits = {} THEN NoMatch
        ELSE Slice(linePrefix, Min(hits) + 1, Len(linePrefix))

\* An edit that replaces what was typed and leaves the "@" in place.
TextEditKeepAt(character, typedAnnotation, variableName) ==
    [kind |-> "replace", start |-> character - Len(typedAnnotation),
     end |-> character, newText |-> variableName]

\* The textEdit of an item: a replacement of the `@typed` before the cursor
\* when the cursor column allows it, else an insertion at the cursor.
TextEdit(character, typedAnnotation, variableName) ==
    IF character >= Len(typedAnnotation) + 1
    THEN [kind |-> "replace", start |-> character - Len(typedAnnotation) - 1,
          end |-> character, newText |-> variableName]
    ELSE [kind |-> "insert", start |-> character, end |-> character,
          newText |-> variableName]

\* One CompletionItem; detail stands for the identifier after the fixed
\* words of the detail text.
CompletionItem(e, character, typedAnnotation) ==
    [label |-> e.label, detail |-> e.identifier, sortText |-> "\\0", preselect |-> TRUE,
     filterText |-> <<"@">> \o e.label,
     textEdit |-> TextEdit(character, typedAnnotation, e.identifier)]

\* The items pushed for the entries of m from entry i on, in the order of the Map.
RECURSIVE ItemsFrom(_, _, _, _)
ItemsFrom(m, i, character, typedAnnotation) ==
    IF i > Len(m) THEN << >>
    ELSE (IF StartsWith(m[i].label, typedAnnotation)
          THEN << CompletionItem(m[i], character, typedAnnotation) >>
          ELSE << >>)
         \o ItemsFrom(m, i + 1, character, typedAnnotation)

\* A lookup that falls back on the map of some other document.
AnnotationMapOfAny(d) ==
    IF d \in DOMAIN documentAnnotations THEN documentAnnotations[d]
    ELSE IF DOMAIN documentAnnotations = {} THEN << >>
    ELSE documentAnnotations[CHOOSE k \in DOMAIN documentAnnotations : TRUE]

\* documentAnnotations.get(document.uri.toString()) || new Map(): the map of
\* d, or an empty map that is not put into documentAnnotations.
AnnotationMapOf(d) ==
    IF d \in DOMAIN documentAnnotations THEN documentAnnotations[d] ELSE << >>

\* provideCompletionItems(document, position) for the document d, the text
\* of the line of the cursor and the cursor's column.
ProvideCompletionItems(d, lineText, character) ==
    IF Scheme(d) # "file" THEN << >>
    ELSE LET linePrefix == Slice(lineText, 1, Min({character, Len(lineText)}))
             atMatch == AtMatch(linePrefix)
         IN  IF atMatch = NoMatch THEN << >>
             ELSE ItemsFrom(AnnotationMapOf(d), 1, character, atMatch)

\* The host asks for completions in document d, on a line with the text
\* lineText, the cursor at column character.  The provider is registered by
\* activate().
CompletionRequest(d, lineText, character) ==
    /\ activated
    /\ completion' = [doc |-> d, line |-> lineText, character |-> character,
                      items |-> ProvideCompletionItems(d, lineText, character)]
    /\ UNCHANGED << core, escaped, scanIn, scanOut, quiet, lastDoc >>

\* The lines completions are asked on; the cursor takes every column of them.
LineSamples ==
    { <<"@">>, <<"@","u">>, <<"x"," ","="," ","@","u","i">>,
      <<"@","u","i","d"," ","@","n">>, <<"a","@","U">>, <<"@","u"," ","d">>,
      <<"n","o">>, <<"@","@","n">>, <<"@","i","d">> }

\* The lines completions are asked on while the controller runs.
LookupLines == { <<"@">>, <<"@","u">> }

\* The resolver alone: the extension is active, document A of the workspace
\* has had k edits and either has no entry or the entry of a scan of its
\* text; U is an untitled document.
InitCompletion ==
    /\ activated = TRUE
    /\ docs = {"A", "U"}
    /\ workspaceFolders = << RootW >>
    /\ visible = {"A"}
    /\ \E k \in 0..MaxEdits :
          /\ text = [d \in AllDocs |-> IF d = "A" THEN k ELSE 0]
          /\ \/ /\ documentAnnotations = << >>
                /\ scannedVer = [d \in AllDocs |-> -1]
             \/ /\ documentAnnotations = ("A" :> Scan(Content(k)))
                /\ scannedVer = [d \in AllDocs |-> IF d = "A" THEN k ELSE -1]
    /\ now = 0
    /\ timeouts = {}
    /\ timer = Null
    /\ ran = NoRun
    /\ quietVis = {}
    /\ lastCall = NoCall
    /\ completion = NoCompletion
    /\ escaped = FALSE
    /\ scanIn = << >>
    /\ scanOut = NotScanned
    /\ quiet = FALSE
    /\ lastDoc = "none"

NextCompletion ==
    \E d \in docs, lineText \in LineSamples :
        \E character \in 0..Len(lineText) : CompletionRequest(d, lineText, character)

SpecCompletion == InitCompletion /\ [][NextCompletion]_vars

(***************************************************************************)
(* Exceptions                                                              *)
(***************************************************************************)

\* onDidChangeVisibleTextEditors(editors) when the call made for editor k
\* raises an exception: the editors before k were handed to the wrapper,
\* the catch of lines 103-105 logs the error and the handler returns.
VisibleChangedThrows(editors, k) ==
    /\ activated
    /\ k \in 1..Len(editors)
    /\ visible' = Range(editors)
    /\ LET w == DebounceEach([timer |-> timer, timeouts |-> timeouts],
                             SubSeq(editors, 1, k - 1), 1)
       IN  /\ timer' = w.timer
           /\ timeouts' = w.timeouts
    /\ ran' = NoRun
    /\ quietVis' = {}
    /\ lastCall' = IF k > 1 THEN [doc |-> editors[k - 1], at |-> now] ELSE lastCall
    /\ UNCHANGED << activated, docs, workspaceFolders, text, now, documentAnnotations,
                    scannedVer >>
    /\ UNCHANGED others

\* An edit of document d when onDidChangeTextDocument(event) raises an
\* exception before the wrapper has set a timeout: the handler has no try,
\* the exception goes to the host that called it.
DocumentChangedThrows(d) ==
    /\ activated
    /\ Edits < MaxEdits
    /\ text' = [text EXCEPT ![d] = @ + 1]
    /\ escaped' = TRUE
    /\ ran' = NoRun
    /\ quietVis' = {}
    /\ UNCHANGED << activated, docs, workspaceFolders, visible, now, timeouts, timer,
                    documentAnnotations, scannedVer, lastCall >>
    /\ UNCHANGED << completion, scanIn, scanOut, quiet, lastDoc >>

\* The timeout q is due and parseDocument raises an exception before line
\* 80: the arrow function of lines 14-16 has no try, the exception goes to
\* the host's timer loop.
TimerFireThrows(q) ==
    /\ q.at = now
    /\ timeouts' = timeouts \ {q}
    /\ escaped' = TRUE
    /\ ran' = NoRun
    /\ lastCall' = NoCall
    /\ UNCHANGED << activated, docs, workspaceFolders, visible, text, now, timer,
                    documentAnnotations, scannedVer, quietVis >>
    /\ UNCHANGED << completion, scanIn, scanOut, quiet, lastDoc >>

\* The controller with calls of the host's API that may raise exceptions.
InitFaults == Init /\ docs = {"A", "B"} /\ workspaceFolders = << RootW >>

NextFaults ==
    \/ Activate /\ UNCHANGED others
    \/ \E editors \in EditorLists : VisibleChanged(editors) /\ UNCHANGED others
    \/ \E d \in docs : DocumentChanged(d) /\ UNCHANGED others
    \/ \E q \in timeouts : TimerFire(q) /\ UNCHANGED others
    \/ Tick /\ UNCHANGED others
    \/ \E editors \in EditorLists : \E k \in 1..Len(editors) : VisibleChangedThrows(editors, k)
    \/ \E d \in docs : DocumentChangedThrows(d)
    \/ \E q \in timeouts : TimerFireThrows(q)

SpecFaults == InitFaults /\ [][NextFaults]_vars

(***************************************************************************)
(* Quiescence                                                              *)
(***************************************************************************)

\* The host delivers no event from now on: no visibility event, no edit.
Quiesce ==
    /\ activated
    /\ ~quiet
    /\ quiet' = TRUE
    /\ UNCHANGED << core, completion, escaped, scanIn, scanOut, lastDoc >>

\* The host runs a timeout that is due, and time passes.
Fire == \E q \in timeouts : TimerFire(q) /\ UNCHANGED others
Pass == Tick /\ UNCHANGED others

\* The controller for documents A and B of the workspace, or A and N, which
\* lies in node_modules; A is visible when the extension is activated.
InitFair ==
    /\ Init
    /\ workspaceFolders = << RootW >>
    /\ docs \in {{"A", "B"}, {"A", "N"}}
    /\ visible = {"A"}

\* Events come while the host is not quiet; lastDoc follows the calls of
\* the wrapper.
NextFair ==
    \/ Activate /\ UNCHANGED others
    \/ \E editors \in EditorLists :
          /\ ~quiet
          /\ VisibleChanged(editors)
          /\ lastDoc' = IF Len(editors) > 0 THEN editors[Len(editors)] ELSE lastDoc
          /\ UNCHANGED << completion, escaped, scanIn, scanOut, quiet >>
    \/ \E d \in docs :
          /\ ~quiet
          /\ DocumentChanged(d)
          /\ lastDoc' = IF d \in visible THEN d ELSE lastDoc
          /\ UNCHANGED << completion, escaped, scanIn, scanOut, quiet >>
    \/ Fire
    \/ Pass
    \/ Quiesce

\* What a step of Fire does to the host's timeouts: one that is due is run
\* and is pending no more.  No other step of NextFair does this, and Fire
\* is enabled exactly when a timeout is due.
RunDue == \E q \in timeouts : q.at = now /\ timeouts' = timeouts \ {q}

\* The host's timer loop runs every timeout that is due, and time does not
\* stop.
FairSpec == InitFair /\ [][NextFair]_vars /\ WF_timeouts(RunDue) /\ WF_vars(Pass)

(***************************************************************************)
(* Workspace folders that change                                           *)
(***************************************************************************)

\* The user adds or removes workspace folders: parseDocument reads
\* vscode.workspace.workspaceFolders anew on every call (line 29), and the
\* extension listens to no event for the change.
WorkspaceFoldersChanged(folders) ==
    /\ activated
    /\ folders # workspaceFolders
    /\ workspaceFolders' = folders
    /\ ran' = NoRun
    /\ UNCHANGED << activated, docs, visible, text, now, timeouts, timer,
                    documentAnnotations, scannedVer, quietVis, lastCall >>
    /\ UNCHANGED others

\* The controller for documents A and B, with or without the folder /w.
InitFolders == Init /\ docs = {"A", "B"}

NextFolders ==
    \/ Activate /\ UNCHANGED others
    \/ \E editors \in EditorLists : VisibleChanged(editors) /\ UNCHANGED others
    \/ \E d \in docs : DocumentChanged(d) /\ UNCHANGED others
    \/ \E q \in timeouts : TimerFire(q) /\ UNCHANGED others
    \/ Tick /\ UNCHANGED others
    \/ \E folders \in {Undefined, << RootW >>} : WorkspaceFoldersChanged(folders)

SpecFolders == InitFolders /\ [][NextFolders]_vars

(***************************************************************************)
(* The scanner alone                                                       *)
(***************************************************************************)

\* The most lines a scanned text has.
MaxLines == 4

\* The lines the scanned texts are made of:
\*   "// @a"   "//@ a "   "// @b"   "let x=1"   "y: 2"   ""   " \t"
\*   "// k: v"   "// c"
ScanLines ==
    { <<"/","/"," ","@","a">>, <<"/","/","@"," ","a"," ">>, <<"/","/"," ","@","b">>, <<"l","e","t"," ","x","=","1">>,
      <<"y",":"," ","2">>, << >>, <<" ","\t">>, <<"/","/"," ","k",":"," ","v">>,
      <<"/","/"," ","c">> }

\* lines.join("\n"): the text whose lines these are.
RECURSIVE Join(_)
Join(lines) ==
    IF Len(lines) = 0 THEN << >>
    ELSE IF Len(lines) = 1 THEN lines[1]
    ELSE lines[1] \o <<"\n">> \o Join(Tail(lines))

\* A text of up to MaxLines lines is at hand; the extension is not active.
InitScan ==
    /\ activated = FALSE
    /\ docs = {"A"}
    /\ workspaceFolders = << RootW >>
    /\ visible = {}
    /\ text = [d \in AllDocs |-> 0]
    /\ now = 0
    /\ timeouts = {}
    /\ timer = Null
    /\ documentAnnotations = << >>
    /\ scannedVer = [d \in AllDocs |-> -1]
    /\ ran = NoRun
    /\ quietVis = {}
    /\ lastCall = NoCall
    /\ completion = NoCompletion
    /\ escaped = FALSE
    /\ scanIn \in UNION {[1..n -> ScanLines] : n \in 0..MaxLines}
    /\ scanOut = NotScanned
    /\ quiet = FALSE
    /\ lastDoc = "none"

\* Lines 46-78 of parseDocument run on the text.
ScanText ==
    /\ scanOut = NotScanned
    /\ scanOut' = Scan(Join(scanIn))
    /\ UNCHANGED << core, completion, escaped, scanIn, quiet, lastDoc >>

NextScan == ScanText

SpecScan == InitScan /\ [][NextScan]_vars

\* The controller and the completion provider together, for the documents A
\* and B of the workspace, B visible when the extension is activated;
\* completions are asked at the end of a line.
InitLookup ==
    /\ Init
    /\ docs = {"A", "B"}
    /\ workspaceFolders = << RootW >>
    /\ visible = {"B"}

\* A step of the controller: the answer of an earlier request is forgotten.
Forget == completion' = NoCompletion /\ UNCHANGED << escaped, scanIn, scanOut, quiet, lastDoc >>

NextLookup ==
    \/ Activate /\ Forget
    \/ \E editors \in EditorLists : VisibleChanged(editors) /\ Forget
    \/ \E d \in docs : DocumentChanged(d) /\ Forget
    \/ \E q \in timeouts : TimerFire(q) /\ Forget
    \/ Tick /\ Forget
    \/ \E d \in docs, lineText \in LookupLines : CompletionRequest(d, lineText, Len(lineText))

SpecLookup == InitLookup /\ [][NextLookup]_vars

(***************************************************************************)
(* Properties                                                              *)
(***************************************************************************)

\* The annotation map a scan of the text after edit number k gives.
ScanOfText == [i \in 1..Len(Texts) |-> Scan(Texts[i])]
IndexOf(k) == ScanOfText[(k % Len(Texts)) + 1]

\* Is path the folder root or a path below it?
IsUnder(path, root) ==
    /\ StartsWith(path, root)
    /\ Len(path) = Len(root) \/ path[Len(root) + 1] = "/"

OutsideEveryRoot(d) ==
    \A i \in 1..Len(workspaceFolders) : ~IsUnder(FsPath(d), workspaceFolders[i])

\* A step in which the host ran a callback: a pending timeout is gone and
\* none was set.
CallbackRan == timeouts' # timeouts /\ timeouts' \subseteq timeouts

\* C1: calls of one debounce wrapper that follow each other before the delay
\* has passed lead to one run of the callback: at most one timeout is ever
\* pending, it is the one the last call set, for the last call's document
\* and due Delay2 after that call; and a callback runs only then, for that
\* document, leaving nothing pending.
C1_DebounceCoalesces ==
    [][ /\ Cardinality(timeouts') <= 1
        /\ \A q \in timeouts' :
              /\ q.id = timer'
              /\ q.doc.uri = lastCall'.doc
              /\ q.at = lastCall'.at + Delay2
        /\ CallbackRan =>
              /\ timeouts' = {}
              /\ ran'.doc = lastCall.doc
              /\ now = lastCall.at + Delay2 ]_vars

\* C1 witness: a callback has just run for a timeout that stood for two or
\* more calls, and nothing is pending.
C1_BurstRanOnce == ran.doc = "A" /\ ran.n = 2 /\ timeouts = {}

\* C2: a pending scan of one document is not cancelled by a call for
\* another document: a pending timeout goes away only by running or by
\* being replaced by a timeout for the same document.
C2_OtherDocumentKeepsPending ==
    [][ \A q \in timeouts :
            q \notin timeouts' =>
                \/ CallbackRan
                \/ \E r \in timeouts' : r.doc.uri = q.doc.uri ]_vars

\* C3: the entry of a document is never replaced by the scan of an older
\* text of it: the edit number the entry was scanned from never decreases.
C3_NeverOlderOverNewer ==
    [][ \A d \in AllDocs : scannedVer'[d] >= scannedVer[d] ]_vars

\* C3 witness: a debounced scan that stood for two or more calls has just
\* replaced an entry of "A" by the scan of a newer text.
C3_NewerReplacedOlder ==
    ran.doc = "A" /\ ran.n = 2 /\ ran.prev >= 0 /\ scannedVer["A"] > ran.prev

\* C4: when the callback of a timeout runs for a document that passes the
\* filter, the entry written is the scan of the text the document has at
\* that moment.
C4_LiveTextAtFire ==
    [][ (CallbackRan /\ PassesFilter(ran'.doc)) =>
            /\ ran'.doc \in DOMAIN documentAnnotations'
            /\ documentAnnotations'[ran'.doc] = IndexOf(text[ran'.doc]) ]_vars

\* C4 witness: "A" was edited between the call and the run, the two texts
\* scan differently, and the entry is the scan of the later text.
C4_EditedBetween ==
    /\ ran.doc = "A"
    /\ ran.seen < text["A"]
    /\ IndexOf(ran.seen) # IndexOf(text["A"])
    /\ "A" \in DOMAIN documentAnnotations
    /\ documentAnnotations["A"] = IndexOf(text["A"])

\* C5: a document has an entry exactly when a scan of it has completed, and
\* the entry is exactly the map of the last completed scan (nothing of the
\* entry before it is kept).
C5_StoreIsLastScan ==
    \A d \in AllDocs :
        IF scannedVer[d] < 0
        THEN d \notin DOMAIN documentAnnotations
        ELSE /\ d \in DOMAIN documentAnnotations
             /\ documentAnnotations[d] = IndexOf(scannedVer[d])

\* C5 witness: the entry of "A" scanned from its first text, which has the
\* label n, has just been replaced by the scan of its second text, and the
\* label n is gone.
C5_LabelDropped ==
    /\ ran.doc = "A"
    /\ ran.prev = 0
    /\ scannedVer["A"] = 1
    /\ <<"n">> \in Labels(IndexOf(0))
    /\ <<"n">> \notin Labels(documentAnnotations["A"])
    /\ <<"u","i","d">> \in Labels(documentAnnotations["A"])

\* C6: once the timeouts of a visibility event that delivered documents of
\* the workspace passing the filter have run, with no other event since,
\* every delivered document has an entry that is the scan of its text.
C6_AllDeliveredScanned ==
    (/\ quietVis # {}
     /\ timeouts = {}
     /\ \A d \in quietVis : PassesFilter(d) /\ ~OutsideEveryRoot(d)) =>
        \A d \in quietVis :
            /\ d \in DOMAIN documentAnnotations
            /\ documentAnnotations[d] = IndexOf(text[d])

\* C7: the scan a text change asked for runs Delay1 (1000) after the call.
C7_ChangeWaitsDelay1 ==
    [][ (CallbackRan /\ ran'.src = "change") => now = lastCall.at + Delay1 ]_vars

\* A step that is an event for documents failing the filter only: an edit
\* of such a document, or a change of the visible editors to such documents.
IneligibleEvent ==
    \/ \E d \in docs : ~PassesFilter(d) /\ text'[d] # text[d]
    \/ /\ visible' # visible
       /\ visible' # {}
       /\ \A d \in visible' : ~PassesFilter(d)

\* C8: an event for a document that fails the filter leaves the Map as it
\* is and every pending scan of another document pending (the timeouts for
\* documents that pass the filter are such).
C8_IneligibleLeavesState ==
    [][ IneligibleEvent =>
            /\ documentAnnotations' = documentAnnotations
            /\ \A q \in timeouts : PassesFilter(q.doc.uri) => q \in timeouts' ]_vars

\* Lines with the cursor at their end, for completion requests:
\* "@", "@u", "x @n".
CursorLines == { <<"@">>, <<"@","u">>, <<"x"," ","@","n">> }

\* C9: a document outside every workspace folder never has an entry, and
\* every completion request for it returns no item.
C9_OutsideRootNeverIndexed ==
    \A d \in docs :
        OutsideEveryRoot(d) =>
            /\ d \notin DOMAIN documentAnnotations
            /\ \A l \in CursorLines : ProvideCompletionItems(d, l, Len(l)) = << >>

\* C10: the step of activate() leaves every visible document that passes
\* the filter with an entry that is the scan of its text, and no timeout
\* pending.
C10_ActivationImmediate ==
    [][ (~activated /\ activated') =>
            /\ \A d \in visible :
                  PassesFilter(d) =>
                      /\ d \in DOMAIN documentAnnotations'
                      /\ documentAnnotations'[d] = IndexOf(text[d])
            /\ timeouts' = {}
            /\ timer' = Null ]_vars

\* C10 witness: right after activation with "A" and "B" visible, both have
\* their entry and the wrapper was never called.
C10_BothScannedAtOnce ==
    /\ activated
    /\ now = 0
    /\ timer = Null
    /\ timeouts = {}
    /\ visible = {"A", "B"}
    /\ {"A", "B"} \subseteq DOMAIN documentAnnotations

(***************************************************************************)
(* Completion                                                              *)
(***************************************************************************)

\* Is p a prefix of s, character for character?
IsPrefixOf(p, s) == Len(p) <= Len(s) /\ \A i \in 1..Len(p) : s[i] = p[i]

\* The part of the line before the cursor of the answered request.
TypedPrefix == SubSeq(completion.line, 1, completion.character)

\* The column of the last "@" before the cursor, 0 if there is none.
LastAt ==
    LET ats == {p \in 1..Len(TypedPrefix) : TypedPrefix[p] = "@"}
    IN  IF ats = {} THEN 0 ELSE CHOOSE p \in ats : \A r \in ats : r <= p

\* What is typed after the last "@".
Typed == SubSeq(TypedPrefix, LastAt + 1, Len(TypedPrefix))

\* The prefix ends in "@typed": there is an "@" and no whitespace after the last one.
EndsInAtTyped == LastAt > 0 /\ \A i \in 1..Len(Typed) : Typed[i] \notin WhiteSpace

\* The (label, identifier) pairs of the items returned, in their order.
Candidates == [i \in 1..Len(completion.items) |->
                  Entry(completion.items[i].label, completion.items[i].detail)]

\* The entry of the document of the request, empty if it has none.
CurrentIndex ==
    IF completion.doc \in DOMAIN documentAnnotations
    THEN documentAnnotations[completion.doc] ELSE << >>

\* C11: for a file-backed document whose line prefix ends in "@typed", the
\* resolver returns one candidate per entry of the document's current index
\* whose label starts with typed (case-sensitive) and no other, in the order
\* of the index; with typed empty these are all entries; without an
\* "@typed" suffix it returns the empty list.
C11_PrefixMatching ==
    (completion # NoCompletion /\ Scheme(completion.doc) = "file") =>
        IF EndsInAtTyped
        THEN Candidates = SelectSeq(CurrentIndex, LAMBDA e : IsPrefixOf(Typed, e.label))
        ELSE completion.items = << >>

\* C11 witness: "@u" was typed and the labels uid and u came back, in the
\* order of the index, the label n left out.
C11_TwoOfThree ==
    /\ Typed = <<"u">>
    /\ Len(CurrentIndex) = 3
    /\ Candidates = << Entry(<<"u","i","d">>, <<"u","s","e","r","I","d">>),
                       Entry(<<"u">>, <<"U">>) >>

\* C12: a completion request for a document that has no entry (never
\* scanned, or its scan still pending) returns no candidate, raises no
\* error and leaves documentAnnotations as it was: the lookup creates no
\* entry.
C12_AbsentIndexIsEmpty ==
    [][ (completion' # NoCompletion /\ completion'.doc \notin DOMAIN documentAnnotations) =>
            /\ completion'.items = << >>
            /\ documentAnnotations' = documentAnnotations
            /\ escaped' = FALSE ]_vars

\* C12 witness: "@" was typed in A, whose scan is pending and which has no
\* entry while B has one; nothing came back and A still has no entry.
C12_AskedWhilePending ==
    /\ completion.doc = "A"
    /\ completion.line = <<"@">>
    /\ completion.items = << >>
    /\ DOMAIN documentAnnotations = {"B"}
    /\ \E q \in timeouts : q.doc.uri = "A"

(***************************************************************************)
(* The scanner                                                             *)
(***************************************************************************)

\* Line i of the scanned text is an annotation line.
IsAnnotation(i) == AnnotationMatch(scanIn[i]) # NoMatch

\* The label of annotation line i.
LabelAt(i) == Trim(AnnotationMatch(scanIn[i]))

IsBlankLine(l) == \A i \in 1..Len(l) : l[i] \in WhiteSpace

\* The first line after line i that is not blank, 0 if there is none.
FollowerOf(i) ==
    LET js == {j \in (i + 1)..Len(scanIn) : ~IsBlankLine(scanIn[j])}
    IN  IF js = {} THEN 0 ELSE CHOOSE j \in js : \A r \in js : j <= r

\* Annotation line i is followed, after blank lines only, by a declaration
\* or property line.
ValidAt(i) ==
    /\ IsAnnotation(i)
    /\ FollowerOf(i) > 0
    /\ VariableMatch(scanIn[FollowerOf(i)]) # NoMatch

IdentifierAfter(i) == VariableMatch(scanIn[FollowerOf(i)])

\* The identifiers the index m holds for the label L.
Lookup(m, L) == {m[i].identifier : i \in {r \in 1..Len(m) : m[r].label = L}}

\* C13: when a label stands on two annotation lines, each followed (after
\* blank lines only) by a declaration or property line, the scan maps the
\* label to the identifier that follows the later one (the last of them, if
\* there are more than two).
C13_LastOccurrenceWins ==
    scanOut # NotScanned =>
        \A i, j \in 1..Len(scanIn) :
            ( /\ i < j
              /\ ValidAt(i) /\ ValidAt(j)
              /\ LabelAt(i) = LabelAt(j)
              /\ \A k \in (j + 1)..Len(scanIn) : ~(ValidAt(k) /\ LabelAt(k) = LabelAt(j)) )
            => Lookup(scanOut, LabelAt(j)) = {IdentifierAfter(j)}

\* C13 witness: "// @a", "let x=1", "// @a", "y: 2" was scanned and a is
\* mapped to y.
C13_SecondOverwrote ==
    /\ scanIn = << <<"/","/"," ","@","a">>, <<"l","e","t"," ","x","=","1">>,
                   <<"/","/"," ","@","a">>, <<"y",":"," ","2">> >>
    /\ scanOut = << Entry(<<"a">>, <<"y">>) >>

\* C14 as stated: when an annotation line is followed by blank or
\* whitespace-only lines only, up to the end of the text, its label is not
\* a key of the index.
C14_DanglingLabelAbsent ==
    scanOut # NotScanned =>
        \A i \in 1..Len(scanIn) :
            (IsAnnotation(i) /\ FollowerOf(i) = 0) => LabelAt(i) \notin Labels(scanOut)

\* C14 amended: such an annotation line adds no mapping: its label is a key
\* of the index only if another annotation line with the same label is
\* followed by a declaration or property line, and then it is mapped to an
\* identifier that follows one of those.
C14_DanglingAddsNothing ==
    scanOut # NotScanned =>
        \A i \in 1..Len(scanIn) :
            (IsAnnotation(i) /\ FollowerOf(i) = 0) =>
                \A n \in 1..Len(scanOut) :
                    scanOut[n].label = LabelAt(i) =>
                        \E k \in 1..Len(scanIn) :
                            /\ k # i
                            /\ ValidAt(k)
                            /\ LabelAt(k) = LabelAt(i)
                            /\ scanOut[n].identifier = IdentifierAfter(k)

\* C14 witness: "// @b", "y: 2", "// @a", "" was scanned: a, which only a
\* blank line follows, is no key, and b is.
C14_DanglingAtEnd ==
    /\ scanIn = << <<"/","/"," ","@","b">>, <<"y",":"," ","2">>,
                   <<"/","/"," ","@","a">>, << >> >>
    /\ scanOut = << Entry(<<"b">>, <<"y">>) >>

\* The line is a comment line: "//" after leading whitespace.
IsCommentLine(l) ==
    \E p \in 1..Len(l) :
        /\ \A i \in 1..(p - 1) : l[i] \in WhiteSpace
        /\ HasAt(l, p, <<"/","/">>)

\* C15: when the first line that is not blank after an annotation line is a
\* comment line (another annotation line included), that line matches
\* neither identifier pattern and this annotation adds no mapping: its
\* label is a key only through another annotation line, one that a line
\* which is no comment follows.
C15_CommentFollowerDrops ==
    scanOut # NotScanned =>
        \A i \in 1..Len(scanIn) :
            (IsAnnotation(i) /\ FollowerOf(i) > 0 /\ IsCommentLine(scanIn[FollowerOf(i)])) =>
                /\ VariableMatch(scanIn[FollowerOf(i)]) = NoMatch
                /\ LabelAt(i) \in Labels(scanOut) =>
                      \E k \in 1..Len(scanIn) :
                          /\ ValidAt(k)
                          /\ LabelAt(k) = LabelAt(i)
                          /\ ~IsCommentLine(scanIn[FollowerOf(k)])

\* C16: whenever the line prefix ends in "@typed", every candidate carries
\* an edit that replaces the range from Len(typed) + 1 columns before the
\* cursor (the column of the "@") up to the cursor by the identifier of its
\* label; the insertion at the cursor is never chosen.
C16_ReplacesAtTyped ==
    (completion # NoCompletion /\ EndsInAtTyped) =>
        \A i \in 1..Len(completion.items) :
            LET edit == completion.items[i].textEdit
            IN  /\ edit.kind = "replace"
                /\ edit.start = completion.character - (Len(Typed) + 1)
                /\ edit.start = LastAt - 1
                /\ edit.end = completion.character
                /\ \E n \in 1..Len(CurrentIndex) :
                      /\ CurrentIndex[n].label = completion.items[i].label
                      /\ edit.newText = CurrentIndex[n].identifier

\* C16 witness: "x = @ui" with the cursor at its end: the one candidate
\* replaces columns 4 to 7 by userId.
C16_ReplacedThreeColumns ==
    /\ completion.line = <<"x"," ","="," ","@","u","i">>
    /\ completion.character = 7
    /\ Len(completion.items) = 1
    /\ completion.items[1].textEdit =
          [kind |-> "replace", start |-> 4, end |-> 7,
           newText |-> <<"u","s","e","r","I","d">>]

(***************************************************************************)
(* Exceptions, frame conditions, freshness                                 *)
(***************************************************************************)

\* C17: an exception raised while a visibility event or a text change is
\* handled, or by the scan a timeout runs, is caught at the handler's
\* boundary: none ever reaches the host.
C17_NoExceptionEscapes == ~escaped

\* C18: a text change of a document that is not among the visible editors
\* leaves documentAnnotations as it was and every pending timeout, its
\* deadline and its document, as it was.
C18_HiddenEditIsNoOp ==
    [][ \A d \in docs :
            (text'[d] # text[d] /\ d \notin visible) =>
                /\ documentAnnotations' = documentAnnotations
                /\ timeouts' = timeouts
                /\ timer' = timer ]_vars

\* C18 witness: a scan of A is pending that was asked for before A's last
\* edit: A was edited while it was not visible, and the timeout stayed.
C18_EditedWhileHidden ==
    /\ "A" \notin visible
    /\ \E q \in timeouts : q.doc.uri = "A" /\ q.seen < text["A"]

\* The entry of d is the scan of the text d has now.
Fresh(d) == d \in DOMAIN documentAnnotations /\ documentAnnotations[d] = IndexOf(text[d])

\* A scan of d is pending and due within the time the model covers.
PendingFor(d) == \E q \in timeouts : q.doc.uri = d /\ q.at <= MaxTime

C20_EntriesStay ==
    [][ /\ DOMAIN documentAnnotations \subseteq DOMAIN documentAnnotations'
        /\ (CallbackRan /\ ~PassesFilter(ran'.doc)) =>
              documentAnnotations' = documentAnnotations ]_vars

\* C20 witness: the workspace folder is gone, A was edited, and the scan
\* that just ran for A was skipped: A still has the entry of its old text.
C20_StaleEntryKept ==
    /\ ran.doc = "A"
    /\ ~PassesFilter("A")
    /\ "A" \in DOMAIN documentAnnotations
    /\ documentAnnotations["A"] # IndexOf(text["A"])


====
